---- MODULE Spec2Model ----
(***************************************************************************)
(* Model of the q-custom-plugin synchronization connector:                 *)
(*   DataSourceConnector.fetchAll / fetchPage  (source client)             *)
(*   PluginManager.sync / fetchDocuments / transformDocument /             *)
(*   processBatches / createBatches / uploadBatch / retryBatch             *)
(* Each action is one atomic block of the single JavaScript thread: the    *)
(* code between two awaits.                                                *)
(***************************************************************************)
EXTENDS Integers, Sequences, FiniteSets, TLC

(***************************************************************************)
(* Bounds of the model.                                                    *)
(***************************************************************************)
MaxDocs == 2           \* raw documents the source holds: once they are served, pages are empty
MaxBatchSize == 2      \* configured dataSource.batchSize ranges over 1..MaxBatchSize
MaxRetriesBound == 2   \* configured plugin.maxRetries ranges over 0..MaxRetriesBound
MaxLen == 5            \* length of the lists createBatches is applied to on its own
MaxSize == 3           \* batch sizes createBatches is applied to on its own

(***************************************************************************)
(* JavaScript values of the fields of a raw document: a string, a number   *)
(* or undefined (the field is absent); and of the fields of a response:    *)
(* null, a boolean, an array or an object as well.                         *)
(***************************************************************************)
Str(x) == [type |-> "string", s |-> x, n |-> 0]
Num(k) == [type |-> "number", s |-> "", n |-> k]
Undefined == [type |-> "undefined", s |-> "", n |-> 0]
Null == [type |-> "null", s |-> "", n |-> 0]
Bool(b) == [type |-> "boolean", s |-> "", n |-> IF b THEN 1 ELSE 0]
Arr(list) == [type |-> "array", s |-> "", n |-> 0, list |-> list]
Obj(fields) == [type |-> "object", s |-> "", n |-> 0, fields |-> fields]

\* JavaScript truthiness: "", 0, false, null and undefined are falsy; every
\* array and object is truthy, the empty array too.
Truthy(v) ==
    \/ v.type = "string" /\ v.s # ""
    \/ v.type = "number" /\ v.n # 0
    \/ v.type = "boolean" /\ v.n # 0
    \/ v.type \in {"array", "object"}

\* data.key: undefined if the object has no such field, and for the field
\* names read here also on an array.
Get(data, key) ==
    IF data.type = "object" /\ key \in DOMAIN data.fields THEN data.fields[key]
    ELSE Undefined

\* a || b
Or(a, b) == IF Truthy(a) THEN a ELSE b

\* The optional fields of a raw document the code reads, and one it does
\* not read: a field with the name of a mandatory attribute.
RawFields ==
    {"id", "title", "name", "content", "body", "url", "source",
     "createdAt", "updatedAt", "author", "category", "tags", "_source_uri"}

Raw(f) == [k \in RawFields |-> IF k \in DOMAIN f THEN f[k] ELSE Undefined]

(***************************************************************************)
(* Raw documents the modelled source serves.                               *)
(***************************************************************************)
docFull ==
    Raw([id |-> Str("test-123"), title |-> Str("Test Document"),
         content |-> Str("This is test content"),
         url |-> Str("https://example.com/doc/123"),
         createdAt |-> Str("2024-01-01T00:00:00Z"),
         updatedAt |-> Str("2024-01-02T00:00:00Z"),
         author |-> Str("Test Author")])

docBare == Raw([title |-> Str("T"), content |-> Str("C")])

\* A record whose content is a number.
docNumeric == Raw([id |-> Str("n-1"), title |-> Str("N"), content |-> Num(42)])

RawPool == {docFull, docBare}

(***************************************************************************)
(* PluginManager.generateDocumentId: `${source}-${timestamp}-${hash}`.     *)
(* The hash is the first 8 hex characters of the md5 of the serialized     *)
(* document: a function of the document's fields alone.  ContentHash       *)
(* keeps that dependence and, like any 32-bit digest, is not injective.    *)
(***************************************************************************)
FieldCode(v) ==
    CASE v.type = "undefined" -> 0
      [] v.type = "number" -> 1 + (IF v.n < 0 THEN -v.n ELSE v.n)
      [] OTHER -> 2 + Len(v.s)

RECURSIVE SumCodes(_, _)
SumCodes(document, fields) ==
    IF fields = {} THEN 0
    ELSE LET k == CHOOSE x \in fields : TRUE
         IN FieldCode(document[k]) + SumCodes(document, fields \ {k})

ContentHash(document) ==
    LET c == SumCodes(document, RawFields) % 64
    IN "0000" \o (IF c < 10 THEN "000" ELSE "00") \o ToString(c)

\* Mutant: the clock value is left out of the id.
generateDocumentIdNoClock(pluginName, document, timestamp) ==
    pluginName \o "-" \o ContentHash(document)

generateDocumentId(pluginName, document, timestamp) ==
    pluginName \o "-" \o ToString(timestamp) \o "-" \o ContentHash(document)

\* new Date().toISOString() at clock value t
ISOString(t) == "T+" \o ToString(t)

(***************************************************************************)
(* PluginManager.extractCustomAttributes: the set of copied field names.   *)
(***************************************************************************)
\* Mutant: every field of the raw document with a value is copied.
extractCustomAttributesEveryField(document) ==
    {k \in RawFields : Truthy(document[k])}

extractCustomAttributes(document) ==
    {k \in {"author", "category", "tags"} : Truthy(document[k])}

(***************************************************************************)
(* PluginManager.transformDocument at clock value t.  Buffer.from(x,       *)
(* 'utf-8') encodes a string and throws a TypeError for a number;          *)
(* transformDocument has no try block, so the error leaves it.             *)
(***************************************************************************)
transformContent(document) == Or(Or(document.content, document.body), Str(""))

transformThrows(document) == transformContent(document).type # "string"

transformDocument(pluginName, document, t) ==
    [id |-> Or(document.id, Str(generateDocumentId(pluginName, document, t))),
     title |-> Or(Or(document.title, document.name), Str("Untitled")),
     content |-> [blob |-> transformContent(document).s],
     contentType |-> "PLAIN_TEXT",
     attributes |->
        [k \in {"_source_uri", "_created_at", "_updated_at"}
                \cup extractCustomAttributes(document) |->
            \* ...this.extractCustomAttributes(document) comes last in the
            \* object literal: a key it holds replaces an earlier one.
            IF k \in extractCustomAttributes(document) THEN document[k]
            ELSE CASE k = "_source_uri" -> Or(Or(document.url, document.source), Str(""))
                   [] k = "_created_at" -> Or(document.createdAt, Str(ISOString(t)))
                   [] k = "_updated_at" -> Or(document.updatedAt, Str(ISOString(t)))]]

(***************************************************************************)
(* Array.prototype.slice(start, end) on a list (indices are 0-based in     *)
(* the code, 1-based in the sequence).                                     *)
(***************************************************************************)
Min(a, b) == IF a < b THEN a ELSE b
Max(a, b) == IF a > b THEN a ELSE b

RelIndex(k, len) == IF k < 0 THEN Max(len + k, 0) ELSE Min(k, len)

Slice(list, start, end) ==
    LET from == RelIndex(start, Len(list))
        to == RelIndex(end, Len(list))
    IN IF from >= to THEN << >>
       ELSE [j \in 1..(to - from) |-> list[from + j]]


(***************************************************************************)
(* PluginManager.createBatches.  The loop                                  *)
(*   for (let i = 0; i < documents.length; i += batchSize)                 *)
(*       batches.push(documents.slice(i, i + batchSize));                  *)
(* is kept as its state (i, batches), its condition and its body.          *)
(***************************************************************************)
createBatchesInit == [i |-> 0, batches |-> << >>]

createBatchesCond(documents, st) == st.i < Len(documents)

\* Mutant: the slice ends one element late.
createBatchesBodyLongSlice(documents, batchSize, st) ==
    [i |-> st.i + batchSize,
     batches |-> Append(st.batches, Slice(documents, st.i, st.i + batchSize + 1))]

\* Mutant: the loop steps by one document instead of one batch.
createBatchesBodyStepOne(documents, batchSize, st) ==
    [i |-> st.i + 1,
     batches |-> Append(st.batches, Slice(documents, st.i, st.i + batchSize))]

\* Mutant: the slice ends one element early.
createBatchesBodyShortSlice(documents, batchSize, st) ==
    [i |-> st.i + batchSize,
     batches |-> Append(st.batches, Slice(documents, st.i, st.i + batchSize - 1))]

\* Mutant: unshift instead of push, the batches come out in reverse order.
createBatchesBodyUnshift(documents, batchSize, st) ==
    [i |-> st.i + batchSize,
     batches |-> <<Slice(documents, st.i, st.i + batchSize)>> \o st.batches]

createBatchesBody(documents, batchSize, st) ==
    [i |-> st.i + batchSize,
     batches |-> Append(st.batches, Slice(documents, st.i, st.i + batchSize))]

RECURSIVE createBatchesLoop(_, _, _)
createBatchesLoop(documents, batchSize, st) ==
    IF createBatchesCond(documents, st)
    THEN createBatchesLoop(documents, batchSize,
                           createBatchesBody(documents, batchSize, st))
    ELSE st.batches

createBatches(documents, batchSize) ==
    createBatchesLoop(documents, batchSize, createBatchesInit)

(***************************************************************************)
(* State.                                                                  *)
(***************************************************************************)
VARIABLES
    config,      \* the resolved settings read through config.get
    source,      \* the pages a scripted data source serves, << >> if it may serve anything
    pc,          \* where sync() is suspended
    page,        \* fetchAll: page
    hasMore,     \* fetchAll: hasMore
    documents,   \* fetchAll: documents (raw)
    now,         \* the wall clock
    docs,        \* sync: documents (transformed)
    batches,     \* processBatches: batches
    i,           \* processBatches: i (0-based)
    attempt,     \* retryBatch: attempt (0 outside retryBatch)
    raised,      \* the error sync() raised, NoError if none
    accepted,    \* the sink: indices of the batches it accepted in this run, in order
    trace,       \* every outbound call, response and delay of the run, in order
    cbDocs,      \* createBatches on its own: documents
    cbSize,      \* createBatches on its own: batchSize
    cbState,     \* createBatches on its own: (i, batches)
    cbPc,        \* createBatches on its own: "loop" or "returned"
    tfDoc,       \* transformDocument on its own: document
    tfNow,       \* transformDocument on its own: the wall clock
    tfOut,       \* transformDocument on its own: the outcomes of its calls, in order
    fpData,      \* fetchPage on its own: what the HTTP call comes back with
    fpPc,        \* fetchPage on its own: "ready", "awaiting", "returned" or "raised"
    fpRequests,  \* fetchPage on its own: the HTTP calls made
    fpOut,       \* fetchPage on its own: the value returned or the error raised
    credentials, \* DataSourceConnector: apiKey, username, password
    headers,     \* DataSourceConnector: client.defaults.headers.common
    process,     \* the node process of the CLI: env, position of main(), exit code
    connection   \* testConnection on its own: its position, request and result

syncVars ==
    <<config, source, pc, page, hasMore, documents, now, docs, batches, i, attempt,
      raised, accepted, trace>>

cbVars == <<cbDocs, cbSize, cbState, cbPc>>

tfVars == <<tfDoc, tfNow, tfOut>>

fpVars == <<fpData, fpPc, fpRequests, fpOut>>

authVars == <<credentials, headers>>

vars == <<syncVars, cbVars, tfVars, fpVars, authVars, process, connection>>

RECURSIVE SeqsUpTo(_, _)
SeqsUpTo(S, n) ==
    IF n <= 0 THEN {<< >>}
    ELSE LET shorter == SeqsUpTo(S, n - 1)
         IN shorter \cup {Append(q, x) : q \in {r \in shorter : Len(r) = n - 1}, x \in S}

NoError == [kind |-> "none", at |-> 0]

\* One entry of the trace.
Event(type, f) ==
    [type |-> type,
     page |-> IF "page" \in DOMAIN f THEN f.page ELSE 0,
     batch |-> IF "batch" \in DOMAIN f THEN f.batch ELSE 0,
     docs |-> IF "docs" \in DOMAIN f THEN f.docs ELSE << >>,
     ms |-> IF "ms" \in DOMAIN f THEN f.ms ELSE 0,
     more |-> IF "more" \in DOMAIN f THEN f.more ELSE FALSE,
     failed |-> IF "failed" \in DOMAIN f THEN f.failed ELSE << >>,
     ok |-> IF "ok" \in DOMAIN f THEN f.ok ELSE TRUE]

RetryDelays == {0, 3}

Configs ==
    [batchSize : 1..MaxBatchSize,
     maxRetries : 0..MaxRetriesBound,
     retryDelay : RetryDelays,
     pluginName : {"test-plugin"}]

\* The state of a PluginManager before sync() is called.
SyncIdle ==
    /\ pc = "idle"
    /\ page = 0
    /\ hasMore = FALSE
    /\ documents = << >>
    /\ now = 0
    /\ docs = << >>
    /\ batches = << >>
    /\ i = 0
    /\ attempt = 0
    /\ raised = NoError
    /\ accepted = << >>
    /\ trace = << >>

CbIdle ==
    /\ cbDocs = << >>
    /\ cbSize = 1
    /\ cbState = createBatchesInit
    /\ cbPc = "off"

TfIdle ==
    /\ tfDoc = Raw([id |-> Undefined])
    /\ tfNow = 0
    /\ tfOut = << >>

FpIdle ==
    /\ fpData = Undefined
    /\ fpPc = "off"
    /\ fpRequests = 0
    /\ fpOut = Undefined

AuthIdle ==
    /\ credentials = [apiKey |-> Undefined, username |-> Undefined, password |-> Undefined]
    /\ headers = [configured |-> FALSE, Authorization |-> Undefined]

\* sync() is called on a PluginManager directly, as the test suite does:
\* index.js is not loaded.
NoProcess ==
    [at |-> "none", env |-> << >>, managers |-> 0, syncs |-> 0, past |-> << >>,
     signal |-> "none", exitCode |-> -1]

\* testConnection is not called.
NoConnection ==
    [pc |-> "off", answer |-> [error |-> "none", status |-> 0], requests |-> 0,
     out |-> Undefined]

\* What a specification of one part leaves idle besides sync(),
\* createBatches and transformDocument.
RestIdle ==
    /\ FpIdle
    /\ AuthIdle
    /\ process = NoProcess
    /\ connection = NoConnection

\* The settings of the runs against a source that may serve anything: the
\* positive base delays.
FreeSourceConfigs == {c \in Configs : c.retryDelay > 0}

Init ==
    /\ config \in FreeSourceConfigs
    /\ source = << >>
    /\ SyncIdle
    /\ RestIdle
    /\ CbIdle
    /\ TfIdle


(***************************************************************************)
(* The fixed courtesy delays, in milliseconds.                             *)
(***************************************************************************)
PageDelayMs == 100
BatchDelayMs == 1000

RECURSIVE Pow2(_)
Pow2(n) == IF n <= 0 THEN 1 ELSE 2 * Pow2(n - 1)

\* Mutant: the exponent is attempt instead of attempt - 1.
retryBackoffDoubled(baseDelay, a) == baseDelay * Pow2(a)

\* retryBatch: baseDelay * Math.pow(2, attempt - 1)
retryBackoff(baseDelay, a) == baseDelay * Pow2(a - 1)

\* Mutant: the loop condition is attempt <= maxRetries + 1.
retryLoopCondOneMore(a) == a <= config.maxRetries + 1

\* Mutant: the loop condition is attempt < maxRetries.
retryLoopCondStrict(a) == a < config.maxRetries

\* retryBatch: the loop condition attempt <= maxRetries
retryLoopCond(a) == a <= config.maxRetries

\* Mutant: the first upload call is counted as one of the maxRetries attempts.
retriesExhaustedCountingFirst(a) == a + 1 >= config.maxRetries

\* retryBatch: attempt === maxRetries, the attempt that rethrows
retriesExhausted(a) == a = config.maxRetries

\* Mutant: items is tried before documents.
fetchPageResultItemsFirst(data) ==
    [documents |-> Or(Or(Get(data, "items"), Get(data, "documents")), data),
     hasMore |-> Or(Or(Get(data, "hasMore"), Get(data, "has_more")), Bool(FALSE)),
     totalCount |-> Or(Or(Get(data, "totalCount"), Get(data, "total")), Num(0))]

\* fetchPage, lines 126-130: the value returned for the payload response.data.
fetchPageResult(data) ==
    [documents |-> Or(Or(Get(data, "documents"), Get(data, "items")), data),
     hasMore |-> Or(Or(Get(data, "hasMore"), Get(data, "has_more")), Bool(FALSE)),
     totalCount |-> Or(Or(Get(data, "totalCount"), Get(data, "total")), Num(0))]

\* fetchAll, lines 91-97, reading the page: pageData.documents with a
\* positive length, else nothing; pageData.hasMore || false as a condition.
PageRead(pageData) ==
    [documents |-> IF pageData.documents.type = "array" THEN pageData.documents.list
                   ELSE << >>,
     hasMore |-> Truthy(pageData.hasMore)]

\* The payloads of a source that has `room` documents left in the model.
Payloads(room) ==
    {Obj([documents |-> Arr(list), hasMore |-> Bool(more)]) :
        list \in SeqsUpTo(RawPool, room), more \in BOOLEAN}

\* What one fetchPage call can return with `room` documents left in the model.
PageResponses(room) ==
    {PageRead(fetchPageResult(data)) : data \in Payloads(room)}

\* The answer to the request for page p: anything, or what the script says,
\* an empty last page once the script is over.
SourcePages(p, room) ==
    IF source = << >> THEN PageResponses(room)
    ELSE {IF p <= Len(source) THEN source[p]
          ELSE [documents |-> << >>, hasMore |-> FALSE]}

\* Mutant: page++ is left out.
fetchAllFoldSamePage(pageData) ==
    IF Len(pageData.documents) > 0
    THEN [documents |-> documents \o pageData.documents,
          page |-> page,
          hasMore |-> pageData.hasMore]
    ELSE [documents |-> documents, page |-> page, hasMore |-> FALSE]

\* fetchAll, lines 91-97: the locals after one page is folded in.
fetchAllFold(pageData) ==
    IF Len(pageData.documents) > 0
    THEN [documents |-> documents \o pageData.documents,
          page |-> page + 1,
          hasMore |-> pageData.hasMore]
    ELSE [documents |-> documents, page |-> page, hasMore |-> FALSE]

\* Mutant: the last fetched document is left out.
transformAllButLast(raw, clock) ==
    [k \in 1..(Len(raw) - 1) |-> transformDocument(config.pluginName, raw[k], clock[k])]

\* fetchDocuments: documents.map(doc => this.transformDocument(doc)), the
\* k-th call reading the clock at clock[k].
transformAll(raw, clock) ==
    [k \in 1..Len(raw) |-> transformDocument(config.pluginName, raw[k], clock[k])]

\* The clock readings of n successive calls, the first at time t: the clock
\* stands still over the calls or ticks once between any two of them.
Ticks == {0, 1}

ClockReadings(n, t) == {[k \in 1..n |-> t + d * (k - 1)] : d \in Ticks}

UploadCall(k) == Event("uploadCall", [batch |-> k + 1, docs |-> batches'[k + 1]])

\* What the sink can answer to a batch-put of the batch: the send is
\* rejected, or a response comes back that lists the documents the sink
\* itself refused (none, or the first one).
SinkAnswers(batch) ==
    {[error |-> TRUE, failedDocuments |-> << >>],
     [error |-> FALSE, failedDocuments |-> << >>],
     [error |-> FALSE, failedDocuments |-> <<batch[1].id>>]}

\* Mutant: a response that lists failed documents is turned into an error.
uploadBatchRaisesOnFailedDocuments(answer) ==
    answer.error \/ answer.failedDocuments # << >>

\* uploadBatch raises exactly when the send does; failedDocuments are only
\* logged.
uploadBatchRaises(answer) == answer.error

\* The trace entry of the answer to the upload call of batch b.
UploadReturn(b, answer) ==
    Event("uploadReturn",
          [batch |-> b, ok |-> ~answer.error, failed |-> answer.failedDocuments])

\* The sink keeps what it answered without an error.
SinkAfter(b, answer) == IF answer.error THEN accepted ELSE Append(accepted, b)

\* processBatches: i++, the loop condition and, if it holds, the next
\* iteration up to its await of uploadBatch; otherwise sync() returns.
NextIteration(tr) ==
    /\ i' = i + 1
    /\ attempt' = 0
    /\ batches' = batches
    /\ IF i + 1 < Len(batches)
       THEN /\ trace' = Append(tr, UploadCall(i + 1))
            /\ pc' = "awaitUpload"
       ELSE /\ trace' = tr
            /\ pc' = "done"

(***************************************************************************)
(* sync() -> fetchDocuments() -> fetchAll(): up to the first fetchPage.    *)
(***************************************************************************)
\* sync() up to its first await, the request for page 1.
SyncBegins ==
    /\ pc = "idle"
    /\ page' = 1
    /\ hasMore' = TRUE
    /\ documents' = << >>
    /\ trace' = Append(trace, Event("fetchCall", [page |-> 1]))
    /\ pc' = "awaitFetch"
    /\ UNCHANGED <<config, source, now, docs, batches, i, attempt, raised, accepted, cbVars, tfVars, fpVars>>

SyncStart ==
    /\ SyncBegins
    /\ UNCHANGED <<authVars, process, connection>>

\* fetchPage returns a page; fetchAll folds it in and starts its delay.
FetchPageReturns ==
    /\ pc = "awaitFetch"
    /\ \E pageData \in SourcePages(page, MaxDocs - Len(documents)) :
          LET after == fetchAllFold(pageData)
          IN /\ documents' = after.documents
             /\ page' = after.page
             /\ hasMore' = after.hasMore
             /\ trace' = trace \o
                   <<Event("fetchReturn", [page |-> page, docs |-> pageData.documents,
                                           more |-> pageData.hasMore, ok |-> TRUE]),
                     Event("delay", [ms |-> PageDelayMs])>>
    /\ pc' = "fetchDelay"
    /\ UNCHANGED <<config, source, now, docs, batches, i, attempt, raised, accepted, cbVars, tfVars, fpVars, authVars, process, connection>>

\* Mutant: a failed page is taken for the end of the data.
FetchPageRaisesSwallowed ==
    /\ pc = "awaitFetch"
    /\ trace' = trace \o
          <<Event("fetchReturn", [page |-> page, ok |-> FALSE]),
            Event("delay", [ms |-> PageDelayMs])>>
    /\ hasMore' = FALSE
    /\ pc' = "fetchDelay"
    /\ UNCHANGED <<config, source, page, documents, now, docs, batches, i, attempt, raised,
                   accepted, cbVars, tfVars, fpVars, authVars, process, connection>>

\* fetchPage raises: rethrown by fetchPage, fetchAll, fetchDocuments and sync.
FetchPageRaises ==
    /\ pc = "awaitFetch"
    /\ trace' = Append(trace, Event("fetchReturn", [page |-> page, ok |-> FALSE]))
    /\ raised' = [kind |-> "fetch", at |-> Len(trace) + 1]
    /\ pc' = "failed"
    /\ UNCHANGED <<config, source, page, hasMore, documents, now, docs, batches, i, attempt,
                   accepted, cbVars, tfVars, fpVars, authVars, process, connection>>

\* The delay is over and hasMore holds: the next fetchPage.
FetchNextPage ==
    /\ pc = "fetchDelay"
    /\ hasMore
    /\ trace' = Append(trace, Event("fetchCall", [page |-> page]))
    /\ pc' = "awaitFetch"
    /\ UNCHANGED <<config, source, page, hasMore, documents, now, docs, batches, i, attempt,
                   raised, accepted, cbVars, tfVars, fpVars, authVars, process, connection>>

\* The delay is over and hasMore is false: fetchAll returns, fetchDocuments
\* transforms, sync() returns on an empty list (leaving it in emptyPc) and
\* otherwise processBatches batches the documents and makes its first
\* uploadBatch call.  An error of transformDocument leaves map,
\* fetchDocuments (which rethrows it) and sync().
FetchAllReturnsTo(emptyPc) ==
    /\ pc = "fetchDelay"
    /\ ~hasMore
    /\ i' = 0
    /\ attempt' = 0
    /\ IF \E k \in 1..Len(documents) : transformThrows(documents[k])
       THEN /\ docs' = << >>
            /\ now' = now
            /\ batches' = << >>
            /\ trace' = trace
            /\ pc' = "failed"
            /\ raised' = [kind |-> "transform", at |-> Len(trace)]
       ELSE /\ \E clock \in ClockReadings(Len(documents), now) :
                  /\ docs' = transformAll(documents, clock)
                  /\ now' = IF Len(documents) = 0 THEN now ELSE clock[Len(documents)]
            /\ IF Len(docs') = 0
               THEN /\ batches' = << >>
                    /\ trace' = trace
                    /\ pc' = emptyPc
                    /\ raised' = IF emptyPc = "done" THEN raised
                                 ELSE [kind |-> "empty", at |-> Len(trace)]
               ELSE IF config.batchSize <= 0
               THEN \* createBatches never returns (its loop makes no
                    \* progress); the event loop stays blocked.
                    /\ batches' = << >>
                    /\ trace' = trace
                    /\ pc' = "batching"
                    /\ raised' = raised
               ELSE /\ batches' = createBatches(docs', config.batchSize)
                    /\ trace' = Append(trace, UploadCall(0))
                    /\ pc' = "awaitUpload"
                    /\ raised' = raised
    /\ UNCHANGED <<config, source, page, hasMore, documents, accepted, cbVars, tfVars, fpVars, authVars, process, connection>>

\* Mutant: an empty fetch is reported as a failure.
FetchAllReturnsEmptyFails == FetchAllReturnsTo("failed")

FetchAllReturns == FetchAllReturnsTo("done")

(***************************************************************************)
(* processBatches: the first uploadBatch call of batch i returns.          *)
(***************************************************************************)
UploadResolves ==
    /\ pc = "awaitUpload"
    /\ \E answer \in SinkAnswers(batches[i + 1]) :
          /\ ~uploadBatchRaises(answer)
          /\ accepted' = SinkAfter(i + 1, answer)
          /\ IF i < Len(batches) - 1
             THEN /\ trace' = trace \o
                        <<UploadReturn(i + 1, answer),
                          Event("delay", [ms |-> BatchDelayMs])>>
                  /\ pc' = "batchDelay"
                  /\ i' = i
             ELSE /\ trace' = Append(trace, UploadReturn(i + 1, answer))
                  /\ pc' = "done"
                  /\ i' = i + 1
    /\ UNCHANGED <<config, source, page, hasMore, documents, now, docs, batches, attempt,
                   raised, cbVars, tfVars, fpVars, authVars, process, connection>>

\* Mutant: the timer of the delay between batches never fires.
BatchDelayNeverElapses ==
    /\ pc = "batchDelay"
    /\ FALSE
    /\ UNCHANGED vars

\* The delay between batches is over: the next iteration.
BatchDelayElapsed ==
    /\ pc = "batchDelay"
    /\ NextIteration(trace)
    /\ UNCHANGED <<config, source, page, hasMore, documents, now, docs, raised, accepted, cbVars, tfVars, fpVars, authVars, process, connection>>

\* The first uploadBatch call of batch i raises: the catch block calls
\* retryBatch, which enters its loop if 1 <= maxRetries and otherwise
\* returns at once, after which the for loop goes on.
UploadRejects ==
    /\ pc = "awaitUpload"
    /\ \E answer \in SinkAnswers(batches[i + 1]) :
          /\ uploadBatchRaises(answer)
          /\ accepted' = SinkAfter(i + 1, answer)
          /\ LET tr == Append(trace, UploadReturn(i + 1, answer))
             IN IF retryLoopCond(1)
                THEN /\ attempt' = 1
                     /\ trace' = Append(tr, Event("delay",
                                        [ms |-> retryBackoff(config.retryDelay, 1)]))
                     /\ pc' = "retryDelay"
                     /\ UNCHANGED <<i, batches>>
                ELSE NextIteration(tr)
    /\ UNCHANGED <<config, source, page, hasMore, documents, now, docs, raised, cbVars, tfVars, fpVars, authVars, process, connection>>

\* Mutant: a retry transforms the batch's raw documents again.
retryBatchPayloadRetransformed(batch) ==
    transformAll(Slice(documents, i * config.batchSize, (i + 1) * config.batchSize),
                 [k \in 1..Len(batch) |-> now + 1])

\* retryBatch: this.uploadBatch(batch), the batch it was handed.
retryBatchPayload(batch) == batch

\* retryBatch: the backoff delay is over, uploadBatch is called again.
RetryDelayElapsed ==
    /\ pc = "retryDelay"
    /\ trace' = Append(trace, Event("uploadCall",
                       [batch |-> i + 1, docs |-> retryBatchPayload(batches[i + 1])]))
    /\ pc' = "awaitRetryUpload"
    /\ UNCHANGED <<config, source, page, hasMore, documents, now, docs, batches, i, attempt,
                   raised, accepted, cbVars, tfVars, fpVars, authVars, process, connection>>

\* retryBatch: the retried call returns; retryBatch returns and the for
\* loop goes on.
RetryUploadResolves ==
    /\ pc = "awaitRetryUpload"
    /\ \E answer \in SinkAnswers(batches[i + 1]) :
          /\ ~uploadBatchRaises(answer)
          /\ accepted' = SinkAfter(i + 1, answer)
          /\ NextIteration(Append(trace, UploadReturn(i + 1, answer)))
    /\ UNCHANGED <<config, source, page, hasMore, documents, now, docs, raised, cbVars, tfVars, fpVars, authVars, process, connection>>

\* retryBatch: the retried call raises; the last attempt rethrows, which
\* leaves processBatches and sync(); any other attempt starts the next delay.
RetryUploadRejects ==
    /\ pc = "awaitRetryUpload"
    /\ \E answer \in SinkAnswers(batches[i + 1]) :
          /\ uploadBatchRaises(answer)
          /\ accepted' = SinkAfter(i + 1, answer)
          /\ LET tr == Append(trace, UploadReturn(i + 1, answer))
             IN IF retriesExhausted(attempt)
                THEN /\ raised' = [kind |-> "upload", at |-> Len(tr)]
                     /\ trace' = tr
                     /\ pc' = "failed"
                     /\ UNCHANGED <<i, attempt, batches>>
                ELSE IF retryLoopCond(attempt + 1)
                THEN /\ attempt' = attempt + 1
                     /\ trace' = Append(tr, Event("delay",
                                        [ms |-> retryBackoff(config.retryDelay, attempt + 1)]))
                     /\ pc' = "retryDelay"
                     /\ UNCHANGED <<i, batches, raised>>
                ELSE /\ NextIteration(tr)
                     /\ raised' = raised
    /\ UNCHANGED <<config, source, page, hasMore, documents, now, docs, cbVars, tfVars, fpVars, authVars, process, connection>>

Next ==
    \/ SyncStart
    \/ FetchPageReturns
    \/ FetchPageRaises
    \/ FetchNextPage
    \/ FetchAllReturns
    \/ UploadResolves
    \/ BatchDelayElapsed
    \/ UploadRejects
    \/ RetryDelayElapsed
    \/ RetryUploadResolves
    \/ RetryUploadRejects

Spec == Init /\ [][Next]_vars

(***************************************************************************)
(* sync() against a scripted source: the sink and the clock stay free.     *)
(***************************************************************************)
\* A list cut into pages of `size` documents, hasMore on all but the last.
RECURSIVE Paginate(_, _)
Paginate(list, size) ==
    IF Len(list) <= size
    THEN <<[documents |-> list, hasMore |-> FALSE]>>
    ELSE <<[documents |-> SubSeq(list, 1, size), hasMore |-> TRUE]>>
         \o Paginate(SubSeq(list, size + 1, Len(list)), size)

\* n raw documents, with and without an id in turn.
Dataset(n) == [k \in 1..n |-> IF k % 2 = 1 THEN docBare ELSE docFull]

\* The test suite's 25 documents { id: 0 } .. { id: 24 } and its settings.
TestRawDocuments == [k \in 1..25 |-> Raw([id |-> Num(k - 1)])]

TestConfig ==
    [batchSize |-> 10, maxRetries |-> 2, retryDelay |-> 100,
     pluginName |-> "test-plugin"]

InitUpload ==
    /\ \/ /\ config \in Configs
          /\ source \in {Paginate(Dataset(n), 1) : n \in 1..MaxDocs}
       \/ /\ config = TestConfig
          /\ source \in {Paginate(TestRawDocuments, 20),
                         Paginate(<<docBare, docNumeric>>, 1)}
    /\ SyncIdle
    /\ RestIdle
    /\ CbIdle
    /\ TfIdle

SpecUpload == InitUpload /\ [][Next]_vars

\* Every pending continuation of sync() is run in the end: the timers of
\* delay fire, and the source and the sink answer every request.
SpecUploadFair == SpecUpload /\ WF_vars(Next)

(***************************************************************************)
(* createBatches on its own: applied to every list of at most MaxLen       *)
(* items with every batch size of 1..MaxSize, and to the 25 documents and  *)
(* batch size 10 of the test suite; one loop iteration a step.             *)
(***************************************************************************)
Items == {1, 2}

\* Array.from({ length: 25 }, (_, i) => ({ id: i }))
TestDocuments == [k \in 1..25 |-> k - 1]

InitBatch ==
    /\ config = [batchSize |-> 1, maxRetries |-> 0, retryDelay |-> 0,
                 pluginName |-> "test-plugin"]
    /\ source = << >>
    /\ SyncIdle
    /\ RestIdle
    /\ TfIdle
    /\ \/ cbDocs \in SeqsUpTo(Items, MaxLen) /\ cbSize \in 1..MaxSize
       \/ cbDocs = TestDocuments /\ cbSize = 10
    /\ cbState = createBatchesInit
    /\ cbPc = "loop"

\* The longest run of the loop the model keeps in full. A run with a
\* positive batch size pushes at most one batch per document.
MaxSpin == MaxLen + 1

\* The loop's state as the model keeps it: the last MaxSpin batches, and i
\* no lower than -MaxSpin. A run with a positive batch size is kept as it
\* is; the loop's condition reads the same on the kept state, as
\* i < 0 <= documents.length on both sides of the fold.
Kept(st) ==
    [i |-> Max(st.i, -MaxSpin),
     batches |-> IF Len(st.batches) > MaxSpin
                 THEN SubSeq(st.batches, Len(st.batches) - MaxSpin + 1, Len(st.batches))
                 ELSE st.batches]

CreateBatchesIterate ==
    /\ cbPc = "loop"
    /\ createBatchesCond(cbDocs, cbState)
    /\ cbState' = Kept(createBatchesBody(cbDocs, cbSize, cbState))
    /\ UNCHANGED <<cbDocs, cbSize, cbPc, syncVars, tfVars, fpVars, authVars, process, connection>>

CreateBatchesReturn ==
    /\ cbPc = "loop"
    /\ ~createBatchesCond(cbDocs, cbState)
    /\ cbPc' = "returned"
    /\ UNCHANGED <<cbDocs, cbSize, cbState, syncVars, tfVars, fpVars, authVars, process, connection>>

NextBatch ==
    \/ CreateBatchesIterate
    \/ CreateBatchesReturn

SpecBatch == InitBatch /\ [][NextBatch]_vars

\* Every batch size an integer setting can hold, up to the bound: config.js
\* line 25 lets a negative BATCH_SIZE through (parseInt(x) || 100 replaces
\* only 0 and NaN), and config.set stores any value, 0 included.
BatchSizes == (-MaxSize)..MaxSize

InitBatchAnySize ==
    /\ config = [batchSize |-> 1, maxRetries |-> 0, retryDelay |-> 0,
                 pluginName |-> "test-plugin"]
    /\ source = << >>
    /\ SyncIdle
    /\ RestIdle
    /\ TfIdle
    /\ cbDocs \in SeqsUpTo(Items, MaxLen)
    /\ cbSize \in BatchSizes
    /\ cbState = createBatchesInit
    /\ cbPc = "loop"

\* The loop is synchronous code: it keeps running while it can.
SpecBatchFair == InitBatchAnySize /\ [][NextBatch]_vars /\ WF_vars(NextBatch)

(***************************************************************************)
(* fetchPage on its own: one call, whose HTTP request fails or comes back  *)
(* with a payload of any of the shapes fetchPage reads.                    *)
(***************************************************************************)
FpPayloads ==
    {Obj([documents |-> d, items |-> t, hasMore |-> h, has_more |-> m]) :
        d \in {Undefined, Null, Arr(<< >>), Arr(<<docBare>>)},
        t \in {Undefined, Null, Arr(<< >>), Arr(<<docFull>>)},
        h \in {Undefined, Bool(FALSE), Bool(TRUE), Num(1)},
        m \in {Undefined, Bool(FALSE), Bool(TRUE)}}
    \cup {Arr(<< >>), Arr(<<docBare, docFull>>), Obj([message |-> Str("none")])}

InitFetchPage ==
    /\ config = TestConfig
    /\ source = << >>
    /\ SyncIdle
    /\ CbIdle
    /\ TfIdle
    /\ AuthIdle
    /\ process = NoProcess
    /\ connection = NoConnection
    /\ fpData \in [error : {"none"}, data : FpPayloads]
                  \cup [error : {"ECONNRESET", "status 500"}, data : {Undefined}]
    /\ fpPc = "ready"
    /\ fpRequests = 0
    /\ fpOut = Undefined

\* fetchPage(page) up to its await: this.client.get('/documents', ...).
FetchPageRequest ==
    /\ fpPc = "ready"
    /\ fpRequests' = fpRequests + 1
    /\ fpPc' = "awaiting"
    /\ UNCHANGED <<fpData, fpOut, syncVars, cbVars, tfVars, authVars, process, connection>>

\* The request comes back: fetchPage returns the normalized page.
FetchPageResponds ==
    /\ fpPc = "awaiting"
    /\ fpData.error = "none"
    /\ fpOut' = fetchPageResult(fpData.data)
    /\ fpPc' = "returned"
    /\ UNCHANGED <<fpData, fpRequests, syncVars, cbVars, tfVars, authVars, process, connection>>

\* The request fails: the catch block logs the error and throws it.
FetchPageThrows ==
    /\ fpPc = "awaiting"
    /\ fpData.error # "none"
    /\ fpOut' = [error |-> fpData.error]
    /\ fpPc' = "raised"
    /\ UNCHANGED <<fpData, fpRequests, syncVars, cbVars, tfVars, authVars, process, connection>>

NextFetchPage ==
    \/ FetchPageRequest
    \/ FetchPageResponds
    \/ FetchPageThrows

SpecFetchPage == InitFetchPage /\ [][NextFetchPage]_vars

(***************************************************************************)
(* DataSourceConnector.setupAuthentication on its own, for every choice of *)
(* configured credentials.                                                 *)
(***************************************************************************)
\* Buffer.from(text).toString('base64'): an injective encoding of the text.
Base64(text) == "base64(" \o text \o ")"

\* Mutant: username and password are looked at before the API key.
setupAuthenticationBasicFirst(apiKey, username, password) ==
    IF Truthy(username) /\ Truthy(password)
    THEN Str("Basic " \o Base64(username.s \o ":" \o password.s))
    ELSE IF Truthy(apiKey)
    THEN Str("Bearer " \o apiKey.s)
    ELSE Undefined

\* setupAuthentication, lines 35-42: the Authorization header it sets,
\* undefined if it sets none.
setupAuthentication(apiKey, username, password) ==
    IF Truthy(apiKey)
    THEN Str("Bearer " \o apiKey.s)
    ELSE IF Truthy(username) /\ Truthy(password)
    THEN Str("Basic " \o Base64(username.s \o ":" \o password.s))
    ELSE Undefined

\* A credential setting: absent, empty, or one of two texts.
CredentialValues == {Undefined, Str(""), Str("alice"), Str("s3cret")}

InitAuth ==
    /\ config = TestConfig
    /\ source = << >>
    /\ SyncIdle
    /\ CbIdle
    /\ TfIdle
    /\ FpIdle
    /\ process = NoProcess
    /\ connection = NoConnection
    /\ credentials \in [apiKey : CredentialValues, username : CredentialValues,
                        password : CredentialValues]
    /\ headers = [configured |-> FALSE, Authorization |-> Undefined]

\* The constructor of DataSourceConnector calls setupAuthentication.
SetupAuthentication ==
    /\ ~headers.configured
    /\ headers' = [configured |-> TRUE,
                   Authorization |-> setupAuthentication(credentials.apiKey,
                                                        credentials.username,
                                                        credentials.password)]
    /\ UNCHANGED <<credentials, syncVars, cbVars, tfVars, fpVars, process, connection>>

NextAuth == SetupAuthentication

SpecAuth == InitAuth /\ [][NextAuth]_vars

(***************************************************************************)
(* index.js: the process from its start to its exit. config.js builds the  *)
(* settings from the environment, main() validates them, builds the        *)
(* PluginManager and awaits one sync(); SIGINT and SIGTERM end the process.*)
(***************************************************************************)
\* A numeric environment variable: unset, or a text given by its characters.
Unset == [set |-> FALSE, chars |-> << >>]
Text(chars) == [set |-> TRUE, chars |-> chars]

NaN == [type |-> "number", s |-> "NaN", n |-> 0]

Digits == <<"0", "1", "2", "3", "4", "5", "6", "7", "8", "9">>

IsDigit(c) == \E d \in 1..10 : Digits[d] = c

DigitValue(c) == (CHOOSE d \in 1..10 : Digits[d] = c) - 1

\* The value of the digits of chars from position k on, up to the first
\* character that is no digit, continuing the value acc.
RECURSIVE LeadingDigits(_, _, _)
LeadingDigits(chars, k, acc) ==
    IF k <= Len(chars) /\ IsDigit(chars[k])
    THEN LeadingDigits(chars, k + 1, 10 * acc + DigitValue(chars[k]))
    ELSE acc

\* parseInt(text): an optional sign and the leading digits; NaN without a
\* digit there, and for undefined.
parseInt(v) ==
    LET signed == v.set /\ Len(v.chars) > 0 /\ v.chars[1] \in {"-", "+"}
        first == IF signed THEN 2 ELSE 1
    IN IF ~v.set \/ first > Len(v.chars) \/ ~IsDigit(v.chars[first]) THEN NaN
       ELSE IF signed /\ v.chars[1] = "-"
       THEN Num(0 - LeadingDigits(v.chars, first, 0))
       ELSE Num(LeadingDigits(v.chars, first, 0))

\* config.js, lines 25, 31, 34, 35: the settings sync() reads.
ConfigOf(env) ==
    [batchSize |-> Or(parseInt(env.BATCH_SIZE), Num(100)).n,
     maxRetries |-> Or(parseInt(env.MAX_RETRIES), Num(3)).n,
     retryDelay |-> Or(parseInt(env.RETRY_DELAY), Num(1000)).n,
     pluginName |-> Or(env.PLUGIN_NAME, Str("custom-plugin")).s]

\* config.get(key) for the keys validate reads.
ConfigGet(env, key) ==
    CASE key = "aws.qBusinessApplicationId" -> env.Q_BUSINESS_APPLICATION_ID
      [] key = "aws.dataSourceId" -> env.Q_BUSINESS_DATA_SOURCE_ID
      [] key = "dataSource.baseUrl" -> env.DATA_SOURCE_BASE_URL

\* Mutant: the base URL is not required.
validateWithoutBaseUrl(env) ==
    LET required == {"aws.qBusinessApplicationId", "aws.dataSourceId"}
        missing == {key \in required : ~Truthy(ConfigGet(env, key))}
    IN missing = {}

\* Config.validate
validate(env) ==
    LET required == {"aws.qBusinessApplicationId", "aws.dataSourceId",
                     "dataSource.baseUrl"}
        missing == {key \in required : ~Truthy(ConfigGet(env, key))}
    IN missing = {}

KeyValues == {Undefined, Str(""), Str("set")}

\* Environments with any setting of the required keys, and environments
\* with the required keys set and any of these texts for the numbers.
Environments ==
    LET keys == [Q_BUSINESS_APPLICATION_ID : KeyValues,
                 Q_BUSINESS_DATA_SOURCE_ID : KeyValues,
                 DATA_SOURCE_BASE_URL : KeyValues,
                 BATCH_SIZE : {Text(<<"1">>)},
                 MAX_RETRIES : {Text(<<"1">>)},
                 RETRY_DELAY : {Text(<<"3">>)},
                 PLUGIN_NAME : {Undefined}]
        numbers == [Q_BUSINESS_APPLICATION_ID : {Str("set")},
                    Q_BUSINESS_DATA_SOURCE_ID : {Str("set")},
                    DATA_SOURCE_BASE_URL : {Str("set")},
                    BATCH_SIZE : {Unset, Text(<<"0">>), Text(<<"1">>),
                                  Text(<<"-", "1">>), Text(<<"2", "x">>)},
                    MAX_RETRIES : {Unset, Text(<<"1">>), Text(<<"-", "1">>)},
                    RETRY_DELAY : {Unset, Text(<<"x">>), Text(<<"3">>)},
                    PLUGIN_NAME : {Undefined, Str("test-plugin")}]
    IN keys \cup numbers

\* The states of sync() in which the event loop is free: a request or a
\* timer is awaited.
AwaitStates ==
    {"awaitFetch", "fetchDelay", "awaitUpload", "batchDelay", "retryDelay",
     "awaitRetryUpload"}

InitMain ==
    /\ process \in {[at |-> "main", env |-> env, managers |-> 0, syncs |-> 0,
                     past |-> << >>, signal |-> "none", exitCode |-> -1] :
                        env \in Environments}
    /\ connection = NoConnection
    /\ config = ConfigOf(process.env)
    /\ source \in {Paginate(Dataset(n), 1) : n \in 0..MaxDocs}
                      \cup {Paginate(<<docBare, docNumeric>>, 1)}
    /\ SyncIdle
    /\ FpIdle
    /\ AuthIdle
    /\ CbIdle
    /\ TfIdle

\* main() up to its first await: validate succeeds, the PluginManager and
\* its DataSourceConnector are constructed, sync() is called and asks for
\* page 1.
MainStart ==
    /\ process.at = "main"
    /\ validate(process.env)
    /\ process' = [process EXCEPT !.at = "running", !.managers = 1, !.syncs = 1]
    /\ headers' = [configured |-> TRUE,
                   Authorization |-> setupAuthentication(credentials.apiKey,
                                                        credentials.username,
                                                        credentials.password)]
    /\ SyncBegins
    /\ UNCHANGED <<credentials, connection>>

\* main(), lines 18-21: validate fails, process.exit(1).
MainRefuses ==
    /\ process.at = "main"
    /\ ~validate(process.env)
    /\ process' = [process EXCEPT !.at = "exited", !.exitCode = 1]
    /\ UNCHANGED <<syncVars, cbVars, tfVars, fpVars, authVars, connection>>

\* main(), lines 27-29: sync() returned; main returns and the process ends
\* with nothing left to run.
MainSyncReturned ==
    /\ process.at = "running"
    /\ pc = "done"
    /\ process' = [process EXCEPT !.at = "exited", !.exitCode = 0]
    /\ UNCHANGED <<syncVars, cbVars, tfVars, fpVars, authVars, connection>>

\* main(), lines 31-34: sync() raised; the catch block exits.
MainSyncRaisedWith(code) ==
    /\ process.at = "running"
    /\ pc = "failed"
    /\ process' = [process EXCEPT !.at = "exited", !.exitCode = code]
    /\ UNCHANGED <<syncVars, cbVars, tfVars, fpVars, authVars, connection>>

\* Mutant: the catch block only logs.
MainSyncRaisedLogged == MainSyncRaisedWith(0)

MainSyncRaised == MainSyncRaisedWith(1)

\* index.js, lines 38-46: SIGINT or SIGTERM arrives while the event loop is
\* free, in one of the given states; the handler calls process.exit(0).
\* After the exit nothing of sync() runs any more.
SignalIn(states) ==
    /\ process.at = "running"
    /\ pc \in states
    /\ process' = [process EXCEPT !.at = "exited", !.exitCode = 0, !.signal = pc]
    /\ pc' = "exited"
    /\ UNCHANGED <<config, source, page, hasMore, documents, now, docs, batches, i,
                   attempt, raised, accepted, trace, cbVars, tfVars, fpVars, authVars,
                   connection>>

\* Mutant: the handler lets the request in flight finish first.
SignalDrains == SignalIn({"fetchDelay", "batchDelay", "retryDelay"})

Signal == SignalIn(AwaitStates)

NextMain ==
    \/ MainStart
    \/ MainRefuses
    \/ FetchPageReturns
    \/ FetchPageRaises
    \/ FetchNextPage
    \/ FetchAllReturns
    \/ UploadResolves
    \/ BatchDelayElapsed
    \/ UploadRejects
    \/ RetryDelayElapsed
    \/ RetryUploadResolves
    \/ RetryUploadRejects
    \/ MainSyncReturned
    \/ MainSyncRaised
    \/ Signal

SpecMain == InitMain /\ [][NextMain]_vars

(***************************************************************************)
(* sync() called again on the same PluginManager, as a scheduler or a test *)
(* does: the trace and the sink's record start afresh with every call, and *)
(* what the ended run left is kept aside.                                  *)
(***************************************************************************)
\* The number of sync() calls made on the manager.
MaxRuns == 2

InitRerun ==
    /\ config \in Configs
    /\ source \in {Paginate(Dataset(n), 1) : n \in 1..MaxDocs}
                      \cup {Paginate(<<docBare, docNumeric>>, 1)}
    /\ SyncIdle
    /\ RestIdle
    /\ CbIdle
    /\ TfIdle

\* What an ended run leaves behind outside the manager.
RunRecord ==
    [pc |-> pc, raised |-> raised.kind, documents |-> documents, accepted |-> accepted]

\* sync() is called: on a fresh manager or after a run that returned or
\* raised. fetchAll declares documents = [], page = 1, hasMore = true anew
\* (lines 82-84); with resume set the page of the ended run is kept.
SyncCallWith(resume) ==
    /\ pc \in {"idle", "done", "failed"}
    /\ process.syncs < MaxRuns
    /\ process' = [process EXCEPT
                      !.syncs = @ + 1,
                      !.past = IF pc = "idle" THEN @ ELSE Append(@, RunRecord)]
    /\ page' = (IF resume /\ page > 0 THEN page ELSE 1)
    /\ hasMore' = TRUE
    /\ documents' = << >>
    /\ docs' = << >>
    /\ batches' = << >>
    /\ i' = 0
    /\ attempt' = 0
    /\ raised' = NoError
    /\ accepted' = << >>
    /\ trace' = <<Event("fetchCall", [page |-> page'])>>
    /\ pc' = "awaitFetch"
    /\ UNCHANGED <<config, source, now, cbVars, tfVars, fpVars, authVars, connection>>

\* Mutant: the second run goes on from the page the first one reached.
SyncCallResumes == SyncCallWith(TRUE)

SyncCall == SyncCallWith(FALSE)

NextRerun ==
    \/ SyncCall
    \/ FetchPageReturns
    \/ FetchPageRaises
    \/ FetchNextPage
    \/ FetchAllReturns
    \/ UploadResolves
    \/ BatchDelayElapsed
    \/ UploadRejects
    \/ RetryDelayElapsed
    \/ RetryUploadResolves
    \/ RetryUploadRejects

SpecRerun == InitRerun /\ [][NextRerun]_vars

(***************************************************************************)
(* DataSourceConnector.testConnection on its own: one call, whose health   *)
(* request is answered with any final HTTP status or fails on the network. *)
(***************************************************************************)
\* What becomes of the GET /health request: the server's answer with its
\* status, or an error of the transport.
HealthAnswers ==
    [error : {"none"}, status : 200..599]
    \cup [error : {"ECONNREFUSED", "ETIMEDOUT"}, status : {0}]

\* this.client.get settles: the client created at lines 17-24 keeps the
\* default validateStatus, so it resolves for a 2xx status and rejects for
\* every other status and for an error of the transport.
ClientResolves(answer) ==
    answer.error = "none" /\ answer.status >= 200 /\ answer.status < 300

\* Mutant: every successful status counts as a sound connection.
testConnectionStatusOkAny2xx(status) == status >= 200 /\ status < 300

\* testConnection, line 165: response.status === 200
testConnectionStatusOk(status) == status = 200

InitConnection ==
    /\ config = TestConfig
    /\ source = << >>
    /\ SyncIdle
    /\ FpIdle
    /\ AuthIdle
    /\ process = NoProcess
    /\ CbIdle
    /\ TfIdle
    /\ connection \in {[pc |-> "ready", answer |-> a, requests |-> 0, out |-> Undefined] :
                         a \in HealthAnswers}

\* testConnection is called: it sends GET /health and awaits the response.
TestConnectionCall ==
    /\ connection.pc = "ready"
    /\ connection' = [connection EXCEPT !.pc = "awaitHealth", !.requests = @ + 1]
    /\ UNCHANGED <<syncVars, cbVars, tfVars, fpVars, authVars, process>>

\* The request resolves: true for status 200, false otherwise.
HealthResolves ==
    /\ connection.pc = "awaitHealth"
    /\ ClientResolves(connection.answer)
    /\ connection' = [connection EXCEPT
                         !.pc = "returned",
                         !.out = Bool(testConnectionStatusOk(connection.answer.status))]
    /\ UNCHANGED <<syncVars, cbVars, tfVars, fpVars, authVars, process>>

\* The request rejects: the catch block logs and returns false.
HealthRejects ==
    /\ connection.pc = "awaitHealth"
    /\ ~ClientResolves(connection.answer)
    /\ connection' = [connection EXCEPT !.pc = "returned", !.out = Bool(FALSE)]
    /\ UNCHANGED <<syncVars, cbVars, tfVars, fpVars, authVars, process>>

NextConnection ==
    \/ TestConnectionCall
    \/ HealthResolves
    \/ HealthRejects

SpecConnection == InitConnection /\ [][NextConnection]_vars

(***************************************************************************)
(* transformDocument on its own: one raw document, transformed twice,      *)
(* the clock standing still or ticking between the two calls.              *)
(***************************************************************************)
\* Raw documents with each field the transformer reads absent, empty,
\* textual or numeric, raw documents with and without the fields that
\* stand in for the clock, and raw documents with each optional attribute
\* absent, empty or filled, with and without a field named _source_uri.
TfDocs ==
    {Raw([id |-> d, title |-> t, name |-> n, content |-> c, body |-> b, author |-> a]) :
        d \in {Undefined, Str(""), Num(0), Str("test-123"), Num(7)},
        t \in {Undefined, Str("Test Document")},
        n \in {Undefined, Str("Name")},
        c \in {Undefined, Str(""), Str("This is test content"), Num(42)},
        b \in {Undefined, Str("Body")},
        a \in {Undefined, Str("Test Author")}}
    \cup
    {Raw([id |-> d, content |-> Str("This is test content"), createdAt |-> c, updatedAt |-> u]) :
        d \in {Undefined, Num(0), Str("test-123")},
        c \in {Undefined, Str("2024-01-01T00:00:00Z")},
        u \in {Undefined, Str("2024-01-02T00:00:00Z")}}
    \cup
    {Raw([id |-> Str("test-123"), content |-> Str("This is test content"), url |-> u,
          author |-> a, category |-> c, tags |-> g, _source_uri |-> x]) :
        u \in {Undefined, Str("https://example.com/doc/123")},
        a \in {Undefined, Str(""), Str("Test Author")},
        c \in {Undefined, Num(0), Str("docs")},
        g \in {Undefined, Arr(<< >>), Arr(<<Str("a"), Str("b")>>)},
        x \in {Undefined, Str("raw-uri")}}

\* Clock values with 1 and 2 decimal digits.
TfClocks == {0, 9, 10}

NoDocument == [id |-> Undefined]

InitTransform ==
    /\ config = TestConfig
    /\ source = << >>
    /\ SyncIdle
    /\ RestIdle
    /\ CbIdle
    /\ tfDoc \in TfDocs
    /\ tfNow \in TfClocks
    /\ tfOut = << >>

\* One call of transformDocument(tfDoc): it returns a sink document or throws.
TransformCall ==
    /\ Len(tfOut) < 2
    /\ tfOut' = Append(tfOut,
                  [t |-> tfNow,
                   threw |-> transformThrows(tfDoc),
                   doc |-> IF transformThrows(tfDoc) THEN NoDocument
                           ELSE transformDocument(config.pluginName, tfDoc, tfNow)])
    /\ UNCHANGED <<tfDoc, tfNow, syncVars, cbVars, fpVars, authVars, process, connection>>

\* The clock ticks between the two calls.
ClockTick ==
    /\ Len(tfOut) = 1
    /\ tfNow = tfOut[1].t
    /\ tfNow' = tfNow + 1
    /\ UNCHANGED <<tfDoc, tfOut, syncVars, cbVars, fpVars, authVars, process, connection>>

NextTransform ==
    \/ TransformCall
    \/ ClockTick

SpecTransform == InitTransform /\ [][NextTransform]_vars

(***************************************************************************)
(* Auxiliary operators of the properties.                                  *)
(***************************************************************************)
RECURSIVE Flatten(_)
Flatten(ss) == IF ss = << >> THEN << >> ELSE Head(ss) \o Flatten(Tail(ss))

CeilDiv(n, d) == (n + d - 1) \div d

\* C1: for a positive batch size, the batches createBatches returns
\* concatenate in order to the input list, there are ceil(len/size) of
\* them, and every batch but the last holds exactly size items.
C1_CreateBatches ==
    (cbPc = "returned" /\ cbSize > 0) =>
        LET B == cbState.batches
        IN /\ Flatten(B) = cbDocs
           /\ Len(B) = CeilDiv(Len(cbDocs), cbSize)
           /\ \A k \in 1..(Len(B) - 1) : Len(B[k]) = cbSize
           /\ B = createBatches(cbDocs, cbSize)

\* 25 documents in batches of 10: batches of 10, 10 and 5.
C1_Witness ==
    /\ cbPc = "returned"
    /\ Len(cbDocs) = 25
    /\ cbSize = 10
    /\ [k \in 1..Len(cbState.batches) |-> Len(cbState.batches[k])] = <<10, 10, 5>>

(***************************************************************************)
(* Reading the trace of a run.                                             *)
(***************************************************************************)
Positions(type) == {p \in 1..Len(trace) : trace[p].type = type}

BatchNumbers == 1..Len(batches)

UploadCallsOf(b) == {p \in Positions("uploadCall") : trace[p].batch = b}

UploadReturnsOf(b) == {p \in Positions("uploadReturn") : trace[p].batch = b}

FailedReturnsOf(b) == {p \in UploadReturnsOf(b) : ~trace[p].ok}

OkReturnsOf(b) == {p \in UploadReturnsOf(b) : trace[p].ok}

\* The n-th smallest element of a set of positions.
Nth(S, n) == CHOOSE p \in S : Cardinality({q \in S : q < p}) = n - 1

Last(S) == CHOOSE p \in S : \A q \in S : q <= p

\* processBatches is through with batch b: it went on to a later batch, or
\* sync() returned or raised.
BatchOver(b) == pc \in {"done", "failed"} \/ (pc # "idle" /\ b < i + 1)

\* Every upload call made for batch b raised, and the batch is over.
AllUploadsFailed(b) ==
    /\ BatchOver(b)
    /\ UploadCallsOf(b) # {}
    /\ OkReturnsOf(b) = {}

\* sync() raised the error of the upload call that returned at position p.
RaisedUploadErrorAt(p) ==
    pc = "failed" /\ raised = [kind |-> "upload", at |-> p]

\* C2: if every upload call for a batch fails, retryBatch makes exactly
\* maxRetries upload attempts and raises the last error, and no later batch
\* receives an upload call.
C2_RetryExhaustion ==
    \A b \in BatchNumbers :
        AllUploadsFailed(b) =>
            /\ Cardinality(UploadCallsOf(b)) - 1 = config.maxRetries
            /\ RaisedUploadErrorAt(Last(UploadReturnsOf(b)))
            /\ \A c \in BatchNumbers : c > b => UploadCallsOf(c) = {}

\* The statement of C2 for a retry budget of at least one attempt.
RetryExhaustionPositiveBudget == config.maxRetries >= 1 => C2_RetryExhaustion

\* C3: when a batch is uploaded on a retry after k < maxRetries failed
\* retries, retryBatch returns normally after exactly k+1 attempts; attempt
\* a is made right after a wait of retryDelay * 2^(a-1), and the waits are
\* strictly increasing for a positive retryDelay.
C3_RetrySuccess ==
    \A b \in BatchNumbers :
        LET calls == UploadCallsOf(b)
            n == Cardinality(calls)
            wait(a) == trace[Nth(calls, a + 1) - 1]
        IN /\ \A a \in 1..(n - 1) :
                /\ wait(a).type = "delay"
                /\ wait(a).ms = config.retryDelay * 2 ^ (a - 1)
                /\ (config.retryDelay > 0 /\ a > 1) => wait(a).ms > wait(a - 1).ms
           /\ (n >= 2 /\ OkReturnsOf(b) # {}) =>
                /\ n - 1 <= config.maxRetries
                /\ Cardinality(FailedReturnsOf(b)) = n - 1
                /\ \A p \in calls : p < Last(UploadReturnsOf(b))
                /\ trace[Last(UploadReturnsOf(b))].ok
                /\ BatchOver(b) /\ b < i + 1
                /\ pc = "failed" => raised.at > Last(UploadReturnsOf(b))

\* A batch uploaded on its second retry, after waits of 3 and 6.
C3_Witness ==
    \E b \in BatchNumbers :
        /\ Cardinality(UploadCallsOf(b)) = 3
        /\ OkReturnsOf(b) # {}
        /\ config.retryDelay = 3
        /\ config.maxRetries = 2
        /\ BatchOver(b)

\* C4 as stated: counting the first call, once maxRetries upload calls of a
\* batch have failed in a row sync() raises and the batch gets no further
\* upload call.
C4_GivenUpAfterMaxRetriesCalls ==
    \A b \in BatchNumbers :
        config.maxRetries >= 1 =>
            /\ Cardinality(FailedReturnsOf(b)) >= config.maxRetries => pc = "failed"
            /\ Cardinality(UploadCallsOf(b)) <= config.maxRetries

\* C4 amended: a batch gets at most 1 + maxRetries upload calls; sync()
\* raises an upload error only when 1 + maxRetries calls of the current
\* batch have failed in a row, and for maxRetries >= 1 it then does raise,
\* the error being that of the last call; for maxRetries = 0 the failure of
\* the only call is dropped and the run is not failed.
C4_GivenUpAfterOnePlusMaxRetries ==
    \A b \in BatchNumbers :
        LET failures == Cardinality(FailedReturnsOf(b))
        IN /\ Cardinality(UploadCallsOf(b)) <= 1 + config.maxRetries
           /\ (pc = "failed" /\ raised.kind = "upload" /\ i + 1 = b) =>
                  /\ failures = 1 + config.maxRetries
                  /\ OkReturnsOf(b) = {}
           /\ (failures = 1 + config.maxRetries /\ config.maxRetries >= 1) =>
                  RaisedUploadErrorAt(Last(UploadReturnsOf(b)))
           /\ (failures = 1 /\ config.maxRetries = 0) => pc # "failed"

\* A batch given up after three failed calls with maxRetries = 2.
C4_Witness ==
    \E b \in BatchNumbers :
        /\ config.maxRetries = 2
        /\ Cardinality(FailedReturnsOf(b)) = 3
        /\ pc = "failed"

\* C5: sync() returns normally only if every batch had an upload call that
\* returned without raising; a batch whose upload calls all raised makes
\* sync() raise.
C5_NoErrorSwallowed ==
    /\ pc = "done" => \A b \in BatchNumbers : OkReturnsOf(b) # {}
    /\ \A b \in BatchNumbers : AllUploadsFailed(b) => pc = "failed"


\* The raw documents of the pages fetched so far, in the order of the calls.
RECURSIVE FetchedUpTo(_)
FetchedUpTo(p) ==
    IF p = 0 THEN << >>
    ELSE FetchedUpTo(p - 1) \o
         (IF trace[p].type = "fetchReturn" THEN trace[p].docs ELSE << >>)

Fetched == FetchedUpTo(Len(trace))

\* The documents of the upload calls that returned without raising, in the
\* order of the calls.
RECURSIVE UploadedUpTo(_)
UploadedUpTo(p) ==
    IF p = 0 THEN << >>
    ELSE UploadedUpTo(p - 1) \o
         (IF /\ trace[p].type = "uploadCall"
             /\ p < Len(trace)
             /\ trace[p + 1].type = "uploadReturn"
             /\ trace[p + 1].ok
          THEN trace[p].docs ELSE << >>)

Uploaded == UploadedUpTo(Len(trace))

\* A sink document made from the raw document.
MadeFrom(sinkDoc, raw) ==
    /\ sinkDoc.title = Or(Or(raw.title, raw.name), Str("Untitled"))
    /\ sinkDoc.content.blob = Or(Or(raw.content, raw.body), Str("")).s

\* The documents at the positions of batch b of the transformed list.
BatchOf(b) ==
    [k \in 1..(Min(b * config.batchSize, Len(docs)) - (b - 1) * config.batchSize) |->
        docs[(b - 1) * config.batchSize + k]]

\* fetchAll has returned.
FetchAllReturned == pc \in {"awaitUpload", "batchDelay", "retryDelay",
                            "awaitRetryUpload", "done"}
                    \/ (pc = "failed" /\ raised.kind # "fetch")

\* C6: at most one batch-put call is in flight, the calls for batch i+1
\* come after every call for batch i has completed, and the documents of
\* the successful uploads follow the order in which they were fetched.
C6_SequentialInOrder ==
    /\ Cardinality(Positions("uploadCall")) - Cardinality(Positions("uploadReturn"))
           \in {0, 1}
    /\ \A b \in BatchNumbers : \A c \in BatchNumbers :
          (b < c /\ UploadCallsOf(c) # {}) =>
              /\ Cardinality(UploadCallsOf(b)) = Cardinality(UploadReturnsOf(b))
              /\ \A p \in UploadCallsOf(b) \cup UploadReturnsOf(b) :
                     \A q \in UploadCallsOf(c) : p < q
    /\ \A p \in Positions("uploadCall") : trace[p].docs = BatchOf(trace[p].batch)
    /\ FetchAllReturned => Len(docs) = Len(documents)
    /\ \A k \in 1..Len(docs) : MadeFrom(docs[k], documents[k])
    /\ documents = Fetched
    /\ \A k \in 1..(Len(accepted) - 1) : accepted[k] < accepted[k + 1]
    /\ Uploaded = Flatten([k \in 1..Len(accepted) |-> BatchOf(accepted[k])])

\* Two batches of one document each, both uploaded, the second on a retry,
\* from a fetch of two pages with different documents.
C6_Witness ==
    /\ pc = "done"
    /\ accepted = <<1, 2>>
    /\ Cardinality(UploadCallsOf(2)) = 2
    /\ Cardinality(Positions("fetchCall")) = 2
    /\ documents[1] # documents[2]

\* C7: every fetchPage call and return precedes the first batch-put call,
\* by which time every fetched document has been transformed; no fetchPage
\* call follows a batch-put call.
C7_FetchTransformUpload ==
    Positions("uploadCall") # {} =>
        /\ \A f \in Positions("fetchCall") \cup Positions("fetchReturn") :
               \A u \in Positions("uploadCall") : f < u
        /\ Cardinality(Positions("fetchCall")) = Cardinality(Positions("fetchReturn"))
        /\ pc \notin {"idle", "awaitFetch", "fetchDelay"}
        /\ Len(docs) = Len(Fetched)
        /\ \A k \in 1..Len(docs) : MadeFrom(docs[k], Fetched[k])
        /\ Flatten(batches) = docs

\* An upload is in flight after a fetch of two pages.
C7_Witness ==
    /\ pc = "awaitUpload"
    /\ Cardinality(Positions("fetchReturn")) = 2
    /\ Len(docs) = 2

\* C8: when a fetchPage call raises, sync() raises that error, the page is
\* not requested again and no batch-put call is made.
C8_FetchFailureFatal ==
    \A p \in Positions("fetchReturn") :
        ~trace[p].ok =>
            /\ pc = "failed"
            /\ raised = [kind |-> "fetch", at |-> p]
            /\ p = Len(trace)
            /\ Positions("uploadCall") = {}
            /\ accepted = << >>

\* The second page fails after the first page delivered documents.
C8_Witness ==
    \E p \in Positions("fetchReturn") :
        /\ ~trace[p].ok
        /\ trace[p].page = 2
        /\ Len(documents) > 0

\* C9: when fetchAll returns no documents, sync() returns without raising
\* and makes no batch-put call.
C9_EmptyFetch ==
    (FetchAllReturned /\ Len(documents) = 0) =>
        /\ pc = "done"
        /\ raised = NoError
        /\ Positions("uploadCall") = {}

\* The first page is empty with hasMore = false, and sync() has returned.
C9_Witness ==
    /\ pc = "done"
    /\ Len(trace) = 3
    /\ trace[2].type = "fetchReturn"
    /\ trace[2].ok
    /\ trace[2].docs = << >>
    /\ ~trace[2].more
    /\ Positions("uploadCall") = {}

\* The retry budget of batch b is used up: its first call and maxRetries
\* retries have all failed.
BudgetExhausted(b) ==
    /\ OkReturnsOf(b) = {}
    /\ Cardinality(FailedReturnsOf(b)) = 1 + config.maxRetries

\* C10: the batches the sink accepted stay accepted, no batch gets an
\* upload call after one of its calls succeeded, and once the retry budget
\* of batch i is used up no batch j > i gets an upload call.
C10_ExhaustionKeepsEarlier ==
    /\ accepted = [k \in 1..Len(accepted) |->
                      trace[Nth(UNION {OkReturnsOf(b) : b \in BatchNumbers}, k)].batch]
    /\ Cardinality(UNION {OkReturnsOf(b) : b \in BatchNumbers}) = Len(accepted)
    /\ \A b \in BatchNumbers : \A p \in OkReturnsOf(b) : \A q \in UploadCallsOf(b) : q < p
    /\ \A b \in BatchNumbers :
          BudgetExhausted(b) => \A c \in BatchNumbers : c > b => UploadCallsOf(c) = {}

\* The statement of C10 for a retry budget of at least one attempt.
ExhaustionKeepsEarlierPositiveBudget ==
    config.maxRetries >= 1 => C10_ExhaustionKeepsEarlier

(***************************************************************************)
(* Claims on uploads, checked against a scripted source (SpecUpload).      *)
(***************************************************************************)
\* The upload returns that carry a response listing failed documents.
PartialReturns ==
    {p \in Positions("uploadReturn") : trace[p].ok /\ trace[p].failed # << >>}

\* C11: a sink response that lists failed documents and comes back without
\* an error is a successful upload: uploadBatch returns it, the batch gets
\* no further upload call, and sync() goes on to the delay, the next batch
\* or its normal return.
C11_PartialFailureIsSuccess ==
    \A p \in PartialReturns :
        LET b == trace[p].batch
        IN /\ \A q \in UploadCallsOf(b) : q < p
           /\ raised.at # p
           /\ IF p = Len(trace)
              THEN pc = "done" /\ b = Len(batches)
              ELSE \/ trace[p + 1] = Event("delay", [ms |-> BatchDelayMs])
                   \/ /\ trace[p + 1].type = "uploadCall"
                      /\ trace[p + 1].batch = b + 1

\* The first of two batches came back with a failed document, on its first
\* call, and sync() returned normally after the second.
C11_Witness ==
    /\ pc = "done"
    /\ raised = NoError
    /\ Len(batches) = 2
    /\ \E p \in PartialReturns : trace[p].batch = 1
    /\ Cardinality(UploadCallsOf(1)) = 1
    /\ accepted = <<1, 2>>

\* The first upload call made for batch b.
FirstCallOf(b) == Nth(UploadCallsOf(b), 1)

\* A wait of BatchDelayMs lies between position p and the first upload call
\* made for batch b.
CourtesyDelayBetween(p, b) ==
    \E q \in Positions("delay") :
        /\ trace[q].ms = BatchDelayMs
        /\ p < q
        /\ q < FirstCallOf(b)

\* C12: whenever a batch that is not the last is uploaded, on its first
\* call or on a retry, a wait of 1000 ms lies between that upload and the
\* first upload call for the next batch; no such wait follows the last batch.
C12_DelayAfterEverySuccess ==
    /\ \A b \in BatchNumbers : \A p \in OkReturnsOf(b) :
          UploadCallsOf(b + 1) # {} => CourtesyDelayBetween(p, b + 1)
    /\ \A p \in UploadReturnsOf(Len(batches)) :
          \A q \in Positions("delay") : q > p => trace[q].ms # BatchDelayMs

\* C13: when no batch-put call fails, a finished sync() over n > 0
\* documents with batch size s has made exactly ceil(n/s) batch-put calls,
\* the k-th for batch k, each of s documents but the last, which carries
\* the rest.
C13_OneCallPerBatch ==
    (/\ pc = "done"
     /\ Len(docs) > 0
     /\ \A b \in BatchNumbers : FailedReturnsOf(b) = {}) =>
        LET n == Len(docs)
            s == config.batchSize
            c == CeilDiv(n, s)
            calls == Positions("uploadCall")
        IN /\ Cardinality(calls) = c
           /\ \A k \in 1..c :
                /\ trace[Nth(calls, k)].batch = k
                /\ Len(trace[Nth(calls, k)].docs) = IF k < c THEN s ELSE n - (c - 1) * s

\* 25 documents at batch size 10, every call succeeding: calls of 10, 10, 5.
C13_Witness ==
    /\ pc = "done"
    /\ Len(docs) = 25
    /\ config.batchSize = 10
    /\ \A b \in BatchNumbers : FailedReturnsOf(b) = {}
    /\ [k \in 1..3 |-> Len(trace[Nth(Positions("uploadCall"), k)].docs)] = <<10, 10, 5>>
    /\ Cardinality(Positions("uploadCall")) = 3

\* fetchDocuments has returned the transformed list.
Transformed == FetchAllReturned /\ raised.kind # "transform"

\* C14: every upload call made for a batch carries the same documents with
\* the same ids, namely the batch's part of the list that fetchDocuments
\* made, one sink document per raw document, before anything was uploaded.
C14_SamePayloadOnEveryAttempt ==
    /\ \A b \in BatchNumbers : \A p \in UploadCallsOf(b) : trace[p].docs = BatchOf(b)
    /\ Transformed =>
          /\ Len(docs) = Len(documents)
          /\ \A k \in 1..Len(docs) : MadeFrom(docs[k], documents[k])
          /\ batches = createBatches(docs, config.batchSize)

\* A batch whose first document got a generated id was uploaded on its
\* second retry.
C14_Witness ==
    /\ pc = "done"
    /\ Cardinality(UploadCallsOf(1)) = 3
    /\ OkReturnsOf(1) # {}
    /\ documents[1].id = Undefined
    /\ \A p \in UploadCallsOf(1) : trace[p].docs[1].id = docs[1].id

(***************************************************************************)
(* Claims on the transformed documents and their ids.                      *)
(***************************************************************************)
\* C15: in one run the ids of the transformed documents are pairwise
\* distinct, whatever raw documents the source returned.
C15_DistinctIds ==
    FetchAllReturned =>
        \A j \in 1..Len(docs) : \A k \in 1..Len(docs) :
            j # k => docs[j].id # docs[k].id

\* The calls of transformDocument that returned a sink document.
Returned == {k \in 1..Len(tfOut) : ~tfOut[k].threw}

\* C16: for a raw document with an id field, whatever its value, the sink
\* document's id is that value.
C16_ExplicitIdPreserved ==
    \A k \in Returned :
        tfDoc.id # Undefined => tfOut[k].doc.id = tfDoc.id

\* C17: transformDocument returns for every raw document, and what it
\* returns has a non-empty id, a non-empty title ('Untitled' without title
\* and name), the bytes of content, body or the empty text, and the
\* attributes _source_uri, _created_at and _updated_at.
C17_TransformTotal ==
    \A k \in 1..Len(tfOut) :
        /\ ~tfOut[k].threw
        /\ LET out == tfOut[k].doc
           IN /\ Truthy(out.id)
              /\ Truthy(out.title)
              /\ (~Truthy(tfDoc.title) /\ ~Truthy(tfDoc.name)) => out.title = Str("Untitled")
              /\ out.content.blob =
                    (IF Truthy(tfDoc.content) THEN tfDoc.content.s
                     ELSE IF Truthy(tfDoc.body) THEN tfDoc.body.s ELSE "")
              /\ {"_source_uri", "_created_at", "_updated_at"} \subseteq DOMAIN out.attributes

\* C18: the id generated for a raw document without id is the plugin name,
\* the clock value of the call and the 8-character content hash, joined by
\* '-'; it equals the id generated for another document at another clock
\* value only if the clock values and the content hashes are the same.
C18_GeneratedId ==
    \A k \in Returned :
        tfDoc.id = Undefined =>
            LET id == tfOut[k].doc.id
                t == tfOut[k].t
                hash == ContentHash(tfDoc)
            IN /\ id = Str(config.pluginName \o "-" \o ToString(t) \o "-" \o hash)
               /\ Len(hash) = 8
               /\ \A d \in TfDocs : \A u \in TfClocks \cup {c + 1 : c \in TfClocks} :
                     Str(generateDocumentId(config.pluginName, d, u)) = id =>
                        u = t /\ ContentHash(d) = hash

\* A document without id was transformed at clock values 9 and 10, and
\* another document with the same content hash exists.
C18_Witness ==
    /\ Len(tfOut) = 2
    /\ Returned = {1, 2}
    /\ tfDoc.id = Undefined
    /\ tfOut[1].t = 9
    /\ tfOut[2].t = 10
    /\ tfOut[1].doc.id # tfOut[2].doc.id
    /\ \E d \in TfDocs : d # tfDoc /\ ContentHash(d) = ContentHash(tfDoc)

(***************************************************************************)
(* Claims on paging and on recovery.                                       *)
(***************************************************************************)
\* A page that ends fetchAll: it came back empty or with hasMore false.
LastPage(p) == trace[p].ok /\ (trace[p].docs = << >> \/ ~trace[p].more)

\* C19: the k-th fetchPage call asks for page k; no page is asked for after
\* the first page that is empty or has hasMore false, even if an empty page
\* said hasMore; every other page is followed, after the delay, by the call
\* for the next page; and fetchAll returns the documents of the pages it
\* asked for, in page order.
C19_FetchAllPaging ==
    LET calls == Positions("fetchCall")
        returns == Positions("fetchReturn")
    IN /\ \A k \in 1..Cardinality(calls) : trace[Nth(calls, k)].page = k
       /\ \A p \in returns : LastPage(p) => \A q \in calls : q < p
       /\ \A p \in returns :
             (trace[p].ok /\ ~LastPage(p) /\ p + 1 < Len(trace)) =>
                trace[p + 2] = Event("fetchCall", [page |-> trace[p].page + 1])
       /\ FetchAllReturned => documents = Fetched

\* Page 1 had documents, page 2 was empty and said hasMore = true; fetchAll
\* returned after exactly these two calls.
C19_Witness ==
    /\ FetchAllReturned
    /\ Cardinality(Positions("fetchCall")) = 2
    /\ \E p \in Positions("fetchReturn") :
          /\ trace[p].page = 2
          /\ trace[p].ok
          /\ trace[p].docs = << >>
          /\ trace[p].more
    /\ Len(documents) > 0

\* The run is outside the case of C20: a page request failed, a document
\* could not be transformed, or some batch failed more than maxRetries times.
BeyondRetryBudget ==
    \/ raised.kind \in {"fetch", "transform"}
    \/ \E b \in BatchNumbers : Cardinality(FailedReturnsOf(b)) > config.maxRetries

\* sync() has returned normally and the sink accepted every batch exactly
\* once, in batch order.
SyncedAll ==
    /\ pc = "done"
    /\ raised = NoError
    /\ accepted = [k \in 1..Len(batches) |-> k]

\* C20: if no batch fails more than maxRetries times, sync() eventually
\* returns normally with every batch accepted by the sink exactly once, in
\* batch order.
C20_TransientFailuresRecovered == <>(BeyondRetryBudget \/ SyncedAll)

\* The first of two batches failed twice and was accepted on its second
\* retry; the second batch was uploaded after it.
C20_Witness ==
    /\ SyncedAll
    /\ ~BeyondRetryBudget
    /\ Len(batches) = 2
    /\ Cardinality(FailedReturnsOf(1)) = 2
    /\ \A p \in UploadCallsOf(2) : p > Last(UploadReturnsOf(1))

(***************************************************************************)
(* Claims on the number and size of the upload calls, and on termination.  *)
(***************************************************************************)
\* C25: for maxRetries >= 0, a batch gets at most 1 + maxRetries upload
\* calls, and a run makes at most ceil(n/batchSize) * (1 + maxRetries)
\* batch-put calls.
C25_CallBudget ==
    config.maxRetries >= 0 =>
        /\ \A b \in BatchNumbers :
              Cardinality(UploadCallsOf(b)) <= 1 + config.maxRetries
        /\ Cardinality(Positions("uploadCall")) <=
              CeilDiv(Len(docs), config.batchSize) * (1 + config.maxRetries)

\* Two batches at maxRetries = 2, each called three times: six calls, the
\* most the budget allows.
C25_Witness ==
    /\ config.maxRetries = 2
    /\ Len(batches) = 2
    /\ \A b \in BatchNumbers : Cardinality(UploadCallsOf(b)) = 3
    /\ Cardinality(Positions("uploadCall")) =
          CeilDiv(Len(docs), config.batchSize) * (1 + config.maxRetries)

\* C28: for a positive batch size, every batch handed to uploadBatch holds
\* at least one and at most batchSize documents.
C28_BatchesNonEmptyAndBounded ==
    config.batchSize > 0 =>
        \A p \in Positions("uploadCall") :
            /\ Len(trace[p].docs) >= 1
            /\ Len(trace[p].docs) <= config.batchSize

\* A full batch of 10 documents and a last batch of 5 were uploaded.
C28_Witness ==
    /\ pc = "done"
    /\ config.batchSize = 10
    /\ \E p \in Positions("uploadCall") : Len(trace[p].docs) = config.batchSize
    /\ \E p \in Positions("uploadCall") : Len(trace[p].docs) = 5

\* sync() has returned or raised.
SyncOver == pc \in {"done", "failed"}

\* C27: against a source that ends its pages, with a positive batch size
\* and every request and delay completing, sync() returns or raises; and a
\* non-empty page with hasMore = true is always followed by the request for
\* the next page, whatever the page number.
C27_SyncTerminates ==
    /\ <>SyncOver
    /\ (pc = "fetchDelay" /\ hasMore) ~> (pc = "awaitFetch" /\ trace[Len(trace)].page = page)

\* sync() returned after two pages, two batches and a retry.
C27_Witness ==
    /\ pc = "done"
    /\ config.batchSize > 0
    /\ Cardinality(Positions("fetchCall")) = 2
    /\ Len(batches) = 2
    /\ \E b \in BatchNumbers : FailedReturnsOf(b) # {}
    /\ Cardinality(Positions("delay")) >= 4

\* C30: two calls of transformDocument on one raw document at different
\* clock values return equal sink documents if the raw document has id,
\* createdAt and updatedAt, and different ids if it has no id.
C30_ClockOnlyThroughAbsentFields ==
    (Returned = {1, 2} /\ tfOut[1].t # tfOut[2].t) =>
        /\ (/\ tfDoc.id # Undefined
            /\ tfDoc.createdAt # Undefined
            /\ tfDoc.updatedAt # Undefined) => tfOut[1].doc = tfOut[2].doc
        /\ tfDoc.id = Undefined => tfOut[1].doc.id # tfOut[2].doc.id

(***************************************************************************)
(* Claims on fetchPage.                                                    *)
(***************************************************************************)
\* The field is there with a value.
Present(v) == v # Undefined /\ v # Null

Configured(v) == v # Undefined /\ v # Str("")

\* C24: the Authorization header is Bearer with the API token when a token
\* is configured, whatever username and password are; Basic with
\* username:password when no token is configured and both of them are; and
\* absent otherwise.
C24_OneAuthScheme ==
    headers.configured =>
        LET k == credentials.apiKey
            u == credentials.username
            p == credentials.password
        IN headers.Authorization =
              (IF Configured(k) THEN Str("Bearer " \o k.s)
               ELSE IF Configured(u) /\ Configured(p)
               THEN Str("Basic " \o Base64(u.s \o ":" \o p.s))
               ELSE Undefined)

\* Token, username and password are all configured: the header is Bearer.
C24_Witness ==
    /\ headers.configured
    /\ credentials = [apiKey |-> Str("s3cret"), username |-> Str("alice"),
                      password |-> Str("s3cret")]
    /\ headers.Authorization = Str("Bearer s3cret")

(***************************************************************************)
(* Claims on termination of createBatches.                                 *)
(***************************************************************************)
\* C26: createBatches returns for every document list and every integer
\* batch size, a batch size of 0 or below included.
C26_CreateBatchesTerminates == <>(cbPc = "returned")

\* With a positive batch size createBatches returns.
C26_PositiveSizeTerminates == (cbSize > 0) => <>(cbPc = "returned")

\* With documents and a batch size of 0 or below the loop makes no progress:
\* i never grows, and the condition i < documents.length stays true.
C26_NoProgress ==
    [][(cbSize <= 0 /\ cbDocs # << >> /\ cbPc = "loop")
         => (cbPc' = "loop" /\ cbState'.i <= cbState.i /\ cbState'.i < Len(cbDocs))]_vars

(***************************************************************************)
(* Claims on the entry point.                                              *)
(***************************************************************************)
\* The application id, the data-source id and the base URL are all set.
RequiredSet(env) ==
    /\ Configured(env.Q_BUSINESS_APPLICATION_ID)
    /\ Configured(env.Q_BUSINESS_DATA_SOURCE_ID)
    /\ Configured(env.DATA_SOURCE_BASE_URL)

Started == process.at \in {"running", "exited"}

\* The number of sync() calls seen in the trace: the requests for page 1.
PassesIn(events) ==
    Cardinality({k \in 1..Len(events) :
                    events[k].type = "fetchCall" /\ events[k].page = 1})

\* C21: validation succeeds, and a PluginManager is constructed, exactly
\* when application id, data-source id and base URL are all set; otherwise
\* main() exits with code 1 with no PluginManager constructed and no
\* fetchPage or upload call made.
C21_ValidationGatesStart ==
    Started =>
        /\ (process.managers = 1) <=> RequiredSet(process.env)
        /\ ~RequiredSet(process.env) =>
              /\ process.at = "exited"
              /\ process.exitCode = 1
              /\ process.managers = 0
              /\ trace = << >>

\* Only the base URL is missing: exit 1 with nothing constructed or called.
C21_Witness ==
    /\ process.at = "exited"
    /\ process.exitCode = 1
    /\ process.env.Q_BUSINESS_APPLICATION_ID = Str("set")
    /\ process.env.Q_BUSINESS_DATA_SOURCE_ID = Str("set")
    /\ process.env.DATA_SOURCE_BASE_URL = Undefined
    /\ process.managers = 0
    /\ trace = << >>

\* C22: the entry point makes one synchronization pass, none if validation
\* fails and never a second; the exit code is 1 exactly when validation
\* failed or sync() raised, and 0 in every other run that ends.
C22_ExitCodes ==
    /\ process.syncs <= 1
    /\ PassesIn(trace) = process.syncs
    /\ process.at = "exited" =>
          /\ process.syncs = (IF validate(process.env) THEN 1 ELSE 0)
          /\ process.exitCode \in {0, 1}
          /\ (process.exitCode = 1) <=> (~validate(process.env) \/ pc = "failed")

\* sync() raised after the retries of a batch ran out: exit 1 after one pass.
C22_Witness ==
    /\ process.at = "exited"
    /\ process.exitCode = 1
    /\ process.syncs = 1
    /\ pc = "failed"
    /\ raised.kind = "upload"

\* sync() returned after its uploads: exit 0.
C22_WitnessSuccess ==
    /\ process.at = "exited"
    /\ process.exitCode = 0
    /\ pc = "done"
    /\ accepted # << >>

\* C23: in every state of the run in which sync() awaits a request or a
\* delay a signal is handled, and a handled signal ends the process with
\* code 0 at once: a request in flight is still unanswered, and nothing
\* runs after the exit.
C23_SignalExitsAtOnce ==
    /\ (process.at = "running" /\ pc \in AwaitStates) => ENABLED Signal
    /\ process.signal # "none" =>
          /\ process.at = "exited"
          /\ process.exitCode = 0
          /\ process.signal \in AwaitStates
          /\ process.signal \in {"awaitFetch", "awaitUpload", "awaitRetryUpload"}
                => trace[Len(trace)].type \in {"fetchCall", "uploadCall"}
          /\ ~ENABLED NextMain

\* A signal arrives while a retried upload is in flight.
C23_Witness ==
    /\ process.signal = "awaitRetryUpload"
    /\ process.at = "exited"
    /\ process.exitCode = 0
    /\ trace[Len(trace)].type = "uploadCall"

(***************************************************************************)
(* Claims on the attributes of a sink document.                            *)
(***************************************************************************)
MandatoryAttributes == {"_source_uri", "_created_at", "_updated_at"}

OptionalAttributes == {"author", "category", "tags"}

\* The mandatory attributes come from url or source, from createdAt and
\* from updatedAt (or the clock), never from a raw field of their own name.
MandatoryFromTheirSources(k) ==
    LET a == tfOut[k].doc.attributes
    IN /\ a["_source_uri"] = Or(Or(tfDoc.url, tfDoc.source), Str(""))
       /\ a["_created_at"] = Or(tfDoc.createdAt, Str(ISOString(tfOut[k].t)))
       /\ a["_updated_at"] = Or(tfDoc.updatedAt, Str(ISOString(tfOut[k].t)))

\* C31 as stated: the attributes are the three mandatory ones plus those of
\* author, category, tags that the raw document has, each with the raw
\* value; the mandatory ones are not taken from a raw field of their name.
C31_AttributesOfPresentFields ==
    \A k \in Returned :
        LET a == tfOut[k].doc.attributes
        IN /\ DOMAIN a = MandatoryAttributes
                           \cup {f \in OptionalAttributes : tfDoc[f] # Undefined}
           /\ \A f \in DOMAIN a \cap OptionalAttributes : a[f] = tfDoc[f]
           /\ MandatoryFromTheirSources(k)

\* C31, amended: the attributes are the three mandatory ones plus those of
\* author, category, tags whose raw value is truthy (a non-empty text, a
\* non-zero number, any array), each with the raw value; no other raw field
\* is copied, and the mandatory ones are not taken from a raw field of
\* their name.
C31_AttributesOfTruthyFields ==
    \A k \in Returned :
        LET a == tfOut[k].doc.attributes
        IN /\ DOMAIN a = MandatoryAttributes
                           \cup {f \in OptionalAttributes : Truthy(tfDoc[f])}
           /\ \A f \in DOMAIN a \cap OptionalAttributes : a[f] = tfDoc[f]
           /\ MandatoryFromTheirSources(k)

\* A raw document with an empty author, a category, empty tags, a url and
\* a field named _source_uri was transformed: category and tags are copied,
\* author is not, and _source_uri is the url.
C31_Witness ==
    /\ 1 \in Returned
    /\ tfDoc.author = Str("")
    /\ tfDoc.category = Str("docs")
    /\ tfDoc.tags = Arr(<< >>)
    /\ tfDoc["_source_uri"] = Str("raw-uri")
    /\ tfDoc.url = Str("https://example.com/doc/123")
    /\ DOMAIN tfOut[1].doc.attributes = MandatoryAttributes \cup {"category", "tags"}
    /\ tfOut[1].doc.attributes["_source_uri"] = Str("https://example.com/doc/123")

(***************************************************************************)
(* Claims on running sync() again.                                         *)
(***************************************************************************)
\* The fields of the PluginManager and of its DataSourceConnector, and the
\* configuration values.
ManagerFields == <<config, credentials, headers>>

\* The run before this one, if any.
HasPast == process.past # << >>

PastRun == process.past[Len(process.past)]

\* C32: no step of sync() changes the configuration or a field of the
\* manager and its connector; and a sync() called after another one, which
\* returned or raised, asks for page 1 first, fetches what a first run
\* fetches from the same source, and when it returns has made an upload
\* call for every batch of all the documents it fetched, whatever the sink
\* accepted in the run before.
C32_RerunFromScratch ==
    /\ [][UNCHANGED ManagerFields]_vars
    /\ [](HasPast =>
            /\ trace[1] = Event("fetchCall", [page |-> 1])
            /\ (FetchAllReturned /\ PastRun.raised # "fetch") =>
                    documents = PastRun.documents
            /\ documents = Fetched
            /\ pc = "done" =>
                    /\ Len(docs) = Len(documents)
                    /\ Flatten(batches) = docs
                    /\ \A b \in BatchNumbers :
                          \E p \in UploadCallsOf(b) : trace[p].docs = batches[b])

\* The first run uploaded both batches; the second run fetched the same
\* two documents and was accepted both batches again.
C32_Witness ==
    /\ HasPast
    /\ PastRun.pc = "done"
    /\ PastRun.accepted = <<1, 2>>
    /\ pc = "done"
    /\ Len(documents) = 2
    /\ accepted = <<1, 2>>

\* The first run raised on a failed upload; the second one returned.
C32_WitnessAfterFailure ==
    /\ HasPast
    /\ PastRun.pc = "failed"
    /\ PastRun.raised = "upload"
    /\ pc = "done"
    /\ accepted # << >>

(***************************************************************************)
(* Claims on testConnection.                                               *)
(***************************************************************************)
\* C33: testConnection makes one health request and always returns: true
\* exactly when the response has status 200, false for every other status
\* and when the request fails.
C33_TestConnectionNeverRaises ==
    /\ connection.pc \in {"off", "ready", "awaitHealth", "returned"}
    /\ connection.pc = "awaitHealth" => ENABLED (HealthResolves \/ HealthRejects)
    /\ connection.pc = "returned" =>
          /\ connection.requests = 1
          /\ connection.out \in {Bool(TRUE), Bool(FALSE)}
          /\ (connection.out = Bool(TRUE))
                <=> (connection.answer.error = "none" /\ connection.answer.status = 200)

\* The server answered 204: testConnection returned false after one request.
C33_Witness ==
    /\ connection.pc = "returned"
    /\ connection.answer = [error |-> "none", status |-> 204]
    /\ connection.requests = 1
    /\ connection.out = Bool(FALSE)

\* The server answered 200: testConnection returned true.
C33_WitnessTrue ==
    /\ connection.pc = "returned"
    /\ connection.answer.status = 200
    /\ connection.out = Bool(TRUE)

====
